---- MODULE Spec2Model ----
(***************************************************************************)
(* Arma-Legacy2PBR: batch conversion of legacy texture maps (_nohq, _smdi, *)
(* _as, _co) found in TGA_Result into packed _NMO / _BCR textures, which   *)
(* are then moved to PBR_Result.  Model of Arma-Legacy2PBR.cpp.            *)
(*                                                                         *)
(* File names and paths are sequences of one-character strings, so that    *)
(* find, find_last_of, extension and tolower are computed as the code      *)
(* computes them.  Pixel buffers are functions from a 0-based byte offset  *)
(* to a byte.  FIBITMAP* values are handles into a heap; NULL is 0.        *)
(***************************************************************************)
EXTENDS Integers, Sequences, FiniteSets, TLC

VARIABLES
    pc,            \* position in main
    exitCode,      \* value returned by main (0 while running)
    tga,           \* directory TGA_Result: file name -> file data
    pbr,           \* directory PBR_Result: file name -> file data
    pbrExists,     \* fs::exists(PBR_Result)
    dirOK,         \* TGA_Result can be enumerated
    pbrCreatable,  \* fs::create_directory(PBR_Result) can succeed
    nohqFiles, smdiFiles, asFiles, coFiles,      \* role lists (paths)
    i,             \* loop index of the set loop
    nohq, smdi, as, co,                                  \* loaded bitmaps
    nohqPrepared, smdiPrepared, asPrepared, coPrepared,  \* 32-bit bitmaps
    nmo, bcr,                                            \* output bitmaps
    heap,          \* live bitmaps: handle -> bitmap
    nextHandle,    \* next fresh handle
    unloads,       \* handle -> number of FreeImage_Unload calls on it
    moveLists,     \* the files of the six lists found at main lines 312-317
    call,          \* index of the next moveFilesToPBRFolder call
    faults,        \* environment failures injected so far
    start,         \* history: the two directories when main started
    loadLog,       \* history: per set, the four paths given to loadImage
    written,       \* history: <<set index, file name>> of every file saved
    opFailed       \* history: relocation operations that failed

loaded   == <<nohq, smdi, as, co>>
prepared == <<nohqPrepared, smdiPrepared, asPrepared, coPrepared>>
outs     == <<nmo, bcr>>
memory   == <<heap, nextHandle, unloads>>
lists    == <<nohqFiles, smdiFiles, asFiles, coFiles>>
disk     == <<tga, pbr, pbrExists>>
env      == <<dirOK, pbrCreatable, start>>
vars     == <<pc, exitCode, disk, env, lists, i, loaded, prepared, outs, memory,
              moveLists, call, faults, loadLog, written, opFailed>>

-----------------------------------------------------------------------------
(* Bounds of the model. *)

\* failures of FreeImage_Save and fs::rename per run
MaxFaults == 1
\* pixel seeds, width and height of the buffers drawn for the repacking check
MaxSeed == 3
MaxW == 2
MaxH == 2

-----------------------------------------------------------------------------
(* Strings. *)

UpperCase == <<"A","B","C","D","E","F","G","H","I","J","K","L","M",
               "N","O","P","Q","R","S","T","U","V","W","X","Y","Z">>
LowerCase == <<"a","b","c","d","e","f","g","h","i","j","k","l","m",
               "n","o","p","q","r","s","t","u","v","w","x","y","z">>

\* ::tolower on one character
tolower(c) ==
    IF \E n \in 1..26 : UpperCase[n] = c
    THEN LowerCase[CHOOSE n \in 1..26 : UpperCase[n] = c]
    ELSE c

\* std::transform(..., ::tolower)
ToLowerStr(s) == [n \in 1..Len(s) |-> tolower(s[n])]

\* str.find(sub) != std::string::npos
Contains(str, sub) ==
    \E n \in 1..(Len(str) - Len(sub) + 1) : SubSeq(str, n, n + Len(sub) - 1) = sub

\* str.find_last_of(c), 1-based; 0 stands for npos
RECURSIVE LastFrom(_, _, _)
LastFrom(str, c, n) ==
    IF n = 0 THEN 0 ELSE IF str[n] = c THEN n ELSE LastFrom(str, c, n - 1)

find_last_of(str, c) == LastFrom(str, c, Len(str))

\* fs::path(p).filename()
Filename(p) == SubSeq(p, find_last_of(p, "/") + 1, Len(p))

\* fs::path(p).extension(): from the last dot of the file name; empty when
\* there is no dot, or the only dot leads the name, or the name is . or ..
ExtensionOfName(f) ==
    LET d == find_last_of(f, ".")
    IN  IF d = 0 \/ d = 1 \/ f = <<".", ".">> THEN <<>> ELSE SubSeq(f, d, Len(f))

Extension(p) == ExtensionOfName(Filename(p))

dotTga == <<".","t","g","a">>
dotTif == <<".","t","i","f">>
dotPng == <<".","p","n","g">>

getFreeImageFormat(filename) ==
    LET extension == ToLowerStr(Extension(filename))
    IN  IF extension = dotTga THEN "FIF_TARGA"
        ELSE IF extension = dotTif THEN "FIF_TIFF"
        ELSE IF extension = dotPng THEN "FIF_PNG"
        ELSE "FIF_UNKNOWN"

getBaseName(filename) ==
    LET pos == find_last_of(filename, "_")
    IN  IF pos # 0 THEN SubSeq(filename, 1, pos - 1) ELSE filename

\* the test of findFilesWithSuffix on one directory entry
MatchesSuffix(path, suffix) ==
    LET f == Filename(path)
    IN  /\ ExtensionOfName(f) \in {dotTga, dotTif, dotPng}
        /\ Contains(f, suffix)

-----------------------------------------------------------------------------
(* Bitmaps and the imaging library. *)

NULL == 0

\* a file that FreeImage_Load cannot decode
Undecodable == [w |-> 0, h |-> 0, bpp |-> 0, bits |-> [n \in {} |-> 255]]

\* pixel data derived from a seed: n bytes, distinct within one buffer
GenBits(seed, n) == [n0 \in 0..(n - 1) |-> (seed * 40 + n0 * 7 + 3) % 256]

Image(w, h, bpp, seed) ==
    [w |-> w, h |-> h, bpp |-> bpp, bits |-> GenBits(seed, w * h * (bpp \div 8))]

\* the bitmap behind a NULL FIBITMAP*: none
NoDib == [w |-> 0, h |-> 0, bpp |-> 0, bits |-> [n \in {} |-> 0]]

\* FreeImage_Load inside loadImage: NULL for an unknown format or bad data
loadImage(filename, data) ==
    IF getFreeImageFormat(filename) = "FIF_UNKNOWN" THEN NoDib
    ELSE IF data = Undecodable THEN NoDib
    ELSE data

\* FreeImage_ConvertTo32Bits: a 32-bit copy; a 24-bit source gets alpha 0xFF
FreeImage_ConvertTo32Bits(dib) ==
    IF dib.bpp = 32 THEN dib
    ELSE [w |-> dib.w, h |-> dib.h, bpp |-> 32,
          bits |-> [n \in 0..(dib.w * dib.h * 4 - 1) |->
                      IF n % 4 = 3 THEN 255 ELSE dib.bits[(n \div 4) * 3 + (n % 4)]]]

\* FreeImage_Rescale: a new 32-bit bitmap of the requested size; every
\* destination pixel is sampled from the source pixel at the same relative
\* position (exact for the one-pixel sources the model feeds it)
FreeImage_Rescale(dib, width, height) ==
    [w |-> width, h |-> height, bpp |-> 32,
     bits |-> [n \in 0..(width * height * 4 - 1) |->
                 LET x  == (n \div 4) % width
                     y  == (n \div 4) \div width
                     sx == (x * dib.w) \div width
                     sy == (y * dib.h) \div height
                 IN  dib.bits[(sx + sy * dib.w) * 4 + (n % 4)]]]

\* FreeImage_Allocate(width, height, 32): zero-filled
FreeImage_Allocate(width, height) ==
    [w |-> width, h |-> height, bpp |-> 32,
     bits |-> [n \in 0..(width * height * 4 - 1) |-> 0]]

\* One byte of the two output buffers after the pixel loop, by byte offset:
\* pixel (x, y) lives at (x + y * width) * 4, channel c at that index + c.
NmoByteFromBlue(nohqBits, smdiBits, asBits, index, c) ==
    IF c = 0 THEN smdiBits[index + 0]
    ELSE IF c = 1 THEN nohqBits[index + 1]
    ELSE IF c = 2 THEN nohqBits[index + 2]
    ELSE asBits[index + 1]

NmoByte(nohqBits, smdiBits, asBits, index, c) ==
    IF c = 0 THEN smdiBits[index + 1]
    ELSE IF c = 1 THEN nohqBits[index + 1]
    ELSE IF c = 2 THEN nohqBits[index + 2]
    ELSE asBits[index + 1]

BcrByteFromRed(coBits, smdiBits, index, c) ==
    IF c = 0 THEN coBits[index + 0]
    ELSE IF c = 1 THEN coBits[index + 1]
    ELSE IF c = 2 THEN coBits[index + 2]
    ELSE smdiBits[index + 2]

BcrByte(coBits, smdiBits, index, c) ==
    IF c = 0 THEN coBits[index + 0]
    ELSE IF c = 1 THEN coBits[index + 1]
    ELSE IF c = 2 THEN coBits[index + 2]
    ELSE smdiBits[index + 0]

\* the offsets the pixel loop reads in a buffer (channels `chans` of every
\* pixel of a width x height image) that lie past the end of the buffer
PastEnd(bits, width, height, chans) ==
    {n \in {(x + y * width) * 4 + c : x \in 0..(width - 1),
                                      y \in 0..(height - 1), c \in chans} :
        n \notin DOMAIN bits}

\* memory as the pixel loop reads it: the buffer, then what lies behind it
Behind(bits, beyond) ==
    [n \in DOMAIN bits \cup DOMAIN beyond |->
        IF n \in DOMAIN bits THEN bits[n] ELSE beyond[n]]

\* The loop body makes eight assignments per pixel, in this order: nmo bytes
\* 0..3 (lines 269-272), bcr bytes 0..3 (lines 275-278).  The assignments of
\* a run of the loop are numbered from 0, pixel after pixel.
NmoStep(n) == (n \div 4) * 8 + (n % 4)
BcrStep(n) == (n \div 4) * 8 + 4 + (n % 4)

\* the assignment that reads offset n of smdiBits, of coBits
SmdiReadStep(n) == (n \div 4) * 8 + (IF n % 4 = 1 THEN 0 ELSE 7)
CoReadStep(n)   == (n \div 4) * 8 + 4 + (n % 4)

\* all assignments of the loop over a width x height image
AllSteps(width, height) == width * height * 8

\* the pixel loop of main over freshly allocated nmo and bcr, after its
\* first `steps` assignments
Repack(nohqBits, smdiBits, asBits, coBits, width, height, steps) ==
    LET written0(n) == \E y \in 0..(height - 1), x \in 0..(width - 1), c \in 0..3 :
                          n = (x + y * width) * 4 + c
        blank == FreeImage_Allocate(width, height)
    IN  [nmo |-> [blank EXCEPT !.bits =
                    [n \in DOMAIN blank.bits |->
                       IF written0(n) /\ NmoStep(n) < steps
                       THEN NmoByte(nohqBits, smdiBits, asBits, (n \div 4) * 4, n % 4)
                       ELSE blank.bits[n]]],
         bcr |-> [blank EXCEPT !.bits =
                    [n \in DOMAIN blank.bits |->
                       IF written0(n) /\ BcrStep(n) < steps
                       THEN BcrByte(coBits, smdiBits, (n \div 4) * 4, n % 4)
                       ELSE blank.bits[n]]]]

\* the heap of bitmaps: m = [heap, next, unloads]
Alloc(m, dib) ==
    [heap    |-> [h \in DOMAIN m.heap \cup {m.next} |->
                     IF h = m.next THEN dib ELSE m.heap[h]],
     next    |-> m.next + 1,
     unloads |-> [h \in DOMAIN m.unloads \cup {m.next} |->
                     IF h = m.next THEN 0 ELSE m.unloads[h]]]

\* FreeImage_Unload: nothing for NULL, otherwise the bitmap is gone
FreeImage_Unload(m, h) ==
    IF h = NULL THEN m
    ELSE [heap    |-> [g \in DOMAIN m.heap \ {h} |-> m.heap[g]],
          next    |-> m.next,
          unloads |-> [m.unloads EXCEPT ![h] = @ + 1]]

RECURSIVE UnloadAll(_, _)
UnloadAll(m, hs) ==
    IF hs = <<>> THEN m ELSE UnloadAll(FreeImage_Unload(m, Head(hs)), Tail(hs))

-----------------------------------------------------------------------------
(* The file system. *)

TGA_Result == <<"T","G","A","_","R","e","s","u","l","t","/">>

S_nohq == <<"_","n","o","h","q">>
S_smdi == <<"_","s","m","d","i">>
S_as   == <<"_","a","s">>
S_co   == <<"_","c","o">>
S_NMO  == <<"_","N","M","O">>
S_BCR  == <<"_","B","C","R">>

\* The files a run may find in TGA_Result, with what they hold.  The images
\* are 2x1, but b_as.png and s_smdi.png are 1x1: the first is rescaled, the
\* second is not, and main indexes it with the _nohq size (a run with
\* s_smdi.png is followed from the pixel loop on, under SpecPastEnd); two
\* images are 24-bit; x_co.png cannot be decoded.
a_nohq_tga  == <<"a">> \o S_nohq \o dotTga
b_nohq_png  == <<"b">> \o S_nohq \o dotPng
c_nohq_tif  == <<"c">> \o S_nohq \o dotTif
a_smdi_tga  == <<"a">> \o S_smdi \o dotTga
s_smdi_png  == <<"s">> \o S_smdi \o dotPng     \* smaller than its _nohq
a_as_tga    == <<"a">> \o S_as \o dotTga
b_as_png    == <<"b">> \o S_as \o dotPng
a_co_tga    == <<"a">> \o S_co \o dotTga
x_co_png    == <<"x">> \o S_co \o dotPng
R_NoHQ_TGA  == <<"R","_","N","o","H","Q",".","T","G","A">>
old_NMO_tga == <<"o","l","d">> \o S_NMO \o dotTga
a_NMO_tga   == <<"a">> \o S_NMO \o dotTga

\* the role files a run may start with
Inputs == {a_nohq_tga, b_nohq_png, c_nohq_tif, a_smdi_tga, a_as_tga, b_as_png,
           a_co_tga, x_co_png}

\* the sets of role files a run of main starts from: the second and third
\* file of a role come with the first, and three sets with both _as files
Scenes ==
    {S \in SUBSET Inputs :
        /\ c_nohq_tif \in S => b_nohq_png \in S /\ b_as_png \in S
        /\ b_nohq_png \in S => a_nohq_tga \in S
        /\ b_as_png \in S => a_as_tga \in S
        /\ x_co_png \in S => a_co_tga \in S}

\* files of earlier work; they lie in TGA_Result when PBR_Result exists
Leftovers == {R_NoHQ_TGA, old_NMO_tga}

FileData(name) ==
    CASE name = a_nohq_tga  -> Image(2, 1, 32, 0)
      [] name = b_nohq_png  -> Image(2, 1, 32, 1)
      [] name = c_nohq_tif  -> Image(2, 1, 24, 2)
      [] name = a_smdi_tga  -> Image(2, 1, 32, 3)
      [] name = s_smdi_png  -> Image(1, 1, 32, 0)
      [] name = a_as_tga    -> Image(2, 1, 32, 4)
      [] name = b_as_png    -> Image(1, 1, 32, 5)
      [] name = a_co_tga    -> Image(2, 1, 24, 6)
      [] name = x_co_png    -> Undecodable
      [] name = R_NoHQ_TGA  -> Image(2, 1, 32, 1)
      [] name = old_NMO_tga -> Image(2, 1, 32, 2)
      [] OTHER              -> Image(1, 1, 32, 7)

\* every order in which the paths of S can be listed
RECURSIVE Orders(_)
Orders(S) ==
    IF S = {} THEN {<<>>}
    ELSE UNION {{<<x>> \o q : q \in Orders(S \ {x})} : x \in S}

\* one of these orders
RECURSIVE AnOrder(_)
AnOrder(S) ==
    IF S = {} THEN <<>>
    ELSE LET x == CHOOSE y \in S : TRUE IN <<x>> \o AnOrder(S \ {x})

\* the entries of TGA_Result that findFilesWithSuffix keeps, as full paths;
\* none when fs::directory_iterator throws
Listed(dir, ok, suffix) ==
    IF ~ok THEN {}
    ELSE {TGA_Result \o name : name \in
             {n \in DOMAIN dir : MatchesSuffix(TGA_Result \o n, suffix)}}

\* findFilesWithSuffix: fs::directory_iterator yields the entries in an
\* unspecified order, so the call returns one of these lists
findFilesWithSuffix(dir, ok, suffix) == Orders(Listed(dir, ok, suffix))

Put(dir, name, data) ==
    [n \in DOMAIN dir \cup {name} |-> IF n = name THEN data ELSE dir[n]]

Remove(dir, name) == [n \in DOMAIN dir \ {name} |-> dir[n]]

\* saveImage: FALSE for an unknown format or when FreeImage_Save fails
saveImage(filename, saveOK) ==
    IF getFreeImageFormat(filename) = "FIF_UNKNOWN" THEN FALSE ELSE saveOK

\* the renames of moveFilesToPBRFolder, in list order; the first rename that
\* throws (its source is gone, or the failure at position failAt) ends the loop
RECURSIVE RenameLoop(_, _, _, _)
RenameLoop(d, filenames, n, failAt) ==
    IF n > Len(filenames) THEN d
    ELSE LET name == Filename(filenames[n])
         IN  IF n = failAt \/ name \notin DOMAIN d.tga
             THEN [d EXCEPT !.failed = @ \cup {<<"rename", name>>}]
             ELSE RenameLoop([d EXCEPT !.tga = Remove(d.tga, name),
                                       !.pbr = Put(d.pbr, name, d.tga[name])],
                             filenames, n + 1, failAt)

\* moveFilesToPBRFolder on d = [tga, pbr, exists, failed]
moveFilesToPBRFolder(d, filenames, mkdirFails, failAt) ==
    IF ~d.exists /\ mkdirFails
    THEN [d EXCEPT !.failed = @ \cup {<<"create_directory", <<>> >>}]
    ELSE RenameLoop([d EXCEPT !.exists = TRUE], filenames, 1, failAt)

PickClamped(files, idx) == files[IF idx < Len(files) THEN idx + 1 ELSE Len(files)]

\* files[i % files.size()], i counted from 0
Pick(files, idx) == files[(idx % Len(files)) + 1]

AnyOtherRoleEmpty(a, b, c, d) == b = <<>> \/ c = <<>> \/ d = <<>>

AnyRoleEmpty(a, b, c, d) == a = <<>> \/ b = <<>> \/ c = <<>> \/ d = <<>>

-----------------------------------------------------------------------------
(* main.  The lists nohqFilesTGA ... coFilesPNG of lines 149-200 are filled  *)
(* and never read; they are left out.  The library calls that allocate      *)
(* (ConvertTo32Bits, Rescale, Allocate) succeed; FreeImage_Load fails on an  *)
(* undecodable file; FreeImage_Save and rename may fail, at most MaxFaults   *)
(* times in a run; create_directory fails in every call of a run whose      *)
(* PBR_Result cannot be created.  A read past the end of a buffer yields a  *)
(* stray byte or ends the process (undefined behaviour); the files main     *)
(* starts from under Spec have sizes with which no such read is made.       *)

Mem == [heap |-> heap, next |-> nextHandle, unloads |-> unloads]

SetMem(m) ==
    /\ heap' = m.heap
    /\ nextHandle' = m.next
    /\ unloads' = m.unloads

\* a bitmap pointer returned by a library call: NULL, or a fresh handle
Handle(m, dib) == IF dib = NoDib THEN NULL ELSE m.next
Keep(m, dib)   == IF dib = NoDib THEN m ELSE Alloc(m, dib)

OldPbr == Put(<<>>, a_NMO_tga, Image(1, 1, 32, 7))

Init ==
    /\ pc = "start"
    /\ exitCode = 0
    /\ dirOK \in BOOLEAN
    /\ pbrExists \in BOOLEAN
    /\ pbrCreatable \in BOOLEAN
    /\ pbrExists => pbrCreatable
    /\ pbr = IF pbrExists THEN OldPbr ELSE <<>>
    /\ \E S \in Scenes :
          /\ dirOK \/ (S = {} /\ ~pbrExists)
          /\ c_nohq_tif \in S => ~pbrExists
          /\ tga = [n \in S \cup (IF pbrExists THEN Leftovers ELSE {}) |->
                       FileData(n)]
    /\ start = [tga |-> tga, pbr |-> pbr, exists |-> pbrExists]
    /\ nohqFiles = <<>> /\ smdiFiles = <<>> /\ asFiles = <<>> /\ coFiles = <<>>
    /\ i = 0
    /\ nohq = NULL /\ smdi = NULL /\ as = NULL /\ co = NULL
    /\ nohqPrepared = NULL /\ smdiPrepared = NULL
    /\ asPrepared = NULL /\ coPrepared = NULL
    /\ nmo = NULL /\ bcr = NULL
    /\ heap = <<>> /\ nextHandle = 1 /\ unloads = <<>>
    /\ moveLists = <<>>
    /\ call = 0
    /\ faults = 0
    /\ loadLog = <<>>
    /\ written = {}
    /\ opFailed = {}

\* lines 143-146: the four role lists
Scan ==
    /\ pc = "start"
    /\ nohqFiles' \in findFilesWithSuffix(tga, dirOK, S_nohq)
    /\ smdiFiles' \in findFilesWithSuffix(tga, dirOK, S_smdi)
    /\ asFiles'   \in findFilesWithSuffix(tga, dirOK, S_as)
    /\ coFiles'   \in findFilesWithSuffix(tga, dirOK, S_co)
    /\ pc' = "check"
    /\ UNCHANGED <<exitCode, disk, env, i, loaded, prepared, outs, memory,
                   moveLists, call, faults, loadLog, written, opFailed>>

\* lines 202-206: no set is processed unless every role has a file
CheckEmpty ==
    /\ pc = "check"
    /\ IF AnyRoleEmpty(nohqFiles, smdiFiles, asFiles, coFiles)
       THEN pc' = "done" /\ exitCode' = -1
       ELSE pc' = "load" /\ exitCode' = exitCode
    /\ UNCHANGED <<disk, env, lists, i, loaded, prepared, outs, memory,
                   moveLists, call, faults, loadLog, written, opFailed>>

\* lines 214-222: a failed load unloads what was loaded and returns -1
LoadFailureSkips(m, hs) ==
    /\ SetMem(UnloadAll(m, hs))
    /\ pc' = "load"
    /\ i' = i + 1
    /\ exitCode' = exitCode

LoadFailureBreaks(m, hs) ==
    /\ SetMem(UnloadAll(m, hs))
    /\ pc' = "load"
    /\ i' = Len(nohqFiles)
    /\ exitCode' = exitCode

LoadFailure(m, hs) ==
    /\ SetMem(UnloadAll(m, hs))
    /\ pc' = "done"
    /\ i' = i
    /\ exitCode' = -1

\* lines 208-222: the four loads of set i; one NULL ends the run
LoadSet ==
    /\ pc = "load"
    /\ i < Len(nohqFiles)
    /\ LET f1 == nohqFiles[i + 1]
           f2 == Pick(smdiFiles, i)
           f3 == Pick(asFiles, i)
           f4 == Pick(coFiles, i)
           d1 == loadImage(f1, tga[Filename(f1)])
           d2 == loadImage(f2, tga[Filename(f2)])
           d3 == loadImage(f3, tga[Filename(f3)])
           d4 == loadImage(f4, tga[Filename(f4)])
           m1 == Keep(Mem, d1)
           m2 == Keep(m1, d2)
           m3 == Keep(m2, d3)
           m4 == Keep(m3, d4)
           h1 == Handle(Mem, d1)
           h2 == Handle(m1, d2)
           h3 == Handle(m2, d3)
           h4 == Handle(m3, d4)
       IN  /\ loadLog' = Append(loadLog, <<f1, f2, f3, f4>>)
           /\ nohq' = h1 /\ smdi' = h2 /\ as' = h3 /\ co' = h4
           /\ IF h1 = NULL \/ h2 = NULL \/ h3 = NULL \/ h4 = NULL
              THEN LoadFailure(m4, <<h1, h2, h3, h4>>)
              ELSE /\ SetMem(m4)
                   /\ pc' = "prepare"
                   /\ i' = i
                   /\ exitCode' = exitCode
    /\ UNCHANGED <<disk, env, lists, prepared, outs,
                   moveLists, call, faults, written, opFailed>>

\* lines 239-244: the rescaled copy replaces asPrepared, which is unloaded
RescaledLeaks(m, h, width, height) ==
    Alloc(m, FreeImage_Rescale(m.heap[h], width, height))

Rescaled(m, h, width, height) ==
    FreeImage_Unload(Alloc(m, FreeImage_Rescale(m.heap[h], width, height)), h)

\* lines 224-244: 32-bit copies; the AS copy is rescaled to the NOHQ size
Prepare ==
    /\ pc = "prepare"
    /\ LET width  == heap[nohq].w
           height == heap[nohq].h
           m1 == Alloc(Mem, FreeImage_ConvertTo32Bits(heap[nohq]))
           m2 == Alloc(m1, FreeImage_ConvertTo32Bits(heap[smdi]))
           m3 == Alloc(m2, FreeImage_ConvertTo32Bits(heap[as]))
           m4 == Alloc(m3, FreeImage_ConvertTo32Bits(heap[co]))
           asP == m4.heap[m2.next]
           resize == asP.w # width \/ asP.h # height
           m5 == Rescaled(m4, m2.next, width, height)
       IN  /\ nohqPrepared' = Mem.next
           /\ smdiPrepared' = m1.next
           /\ coPrepared' = m3.next
           /\ asPrepared' = IF resize THEN m4.next ELSE m2.next
           /\ SetMem(IF resize THEN m5 ELSE m4)
    /\ pc' = "repack"
    /\ UNCHANGED <<exitCode, disk, env, lists, i, loaded, outs,
                   moveLists, call, faults, loadLog, written, opFailed>>

\* the reads of the pixel loop past the end of the _smdi and _co buffers
\* (lines 269, 278 and 273-275), when these are smaller than the _nohq image
SmdiPastEnd ==
    PastEnd(heap[smdiPrepared].bits, heap[nohq].w, heap[nohq].h, {0, 1})

CoPastEnd ==
    PastEnd(heap[coPrepared].bits, heap[nohq].w, heap[nohq].h, {0, 1, 2})

\* what a read past the end of a buffer may yield: any byte
StrayBytes == 0..255

\* lines 246-280: nmo and bcr are allocated and filled by the pixel loop;
\* here every read past the end of a buffer yields a stray byte
RepackStep ==
    /\ pc = "repack"
    /\ \E smdiBeyond \in [SmdiPastEnd -> StrayBytes],
          coBeyond \in [CoPastEnd -> StrayBytes] :
          LET width  == heap[nohq].w
              height == heap[nohq].h
              r  == Repack(heap[nohqPrepared].bits,
                           Behind(heap[smdiPrepared].bits, smdiBeyond),
                           heap[asPrepared].bits,
                           Behind(heap[coPrepared].bits, coBeyond),
                           width, height, AllSteps(width, height))
              m1 == Alloc(Mem, r.nmo)
              m2 == Alloc(m1, r.bcr)
          IN  /\ nmo' = Mem.next
              /\ bcr' = m1.next
              /\ SetMem(m2)
    /\ pc' = "save"
    /\ UNCHANGED <<exitCode, disk, env, lists, i, loaded, prepared,
                   moveLists, call, faults, loadLog, written, opFailed>>

\* lines 246-280: a read past the end of a buffer is undefined behaviour and
\* may also end the process (a fault on an unmapped page) inside the pixel
\* loop, at the assignment `stop` that makes the read; nmo and bcr are
\* allocated and hold what the earlier assignments wrote (earlier reads past
\* the end yielded stray bytes); main does not return, nothing is saved,
\* unloaded or moved
RepackCrash ==
    /\ pc = "repack"
    /\ \E stop \in {SmdiReadStep(n) : n \in SmdiPastEnd}
                    \cup {CoReadStep(n) : n \in CoPastEnd} :
       \E smdiBeyond \in [{n \in SmdiPastEnd : SmdiReadStep(n) < stop} -> StrayBytes],
          coBeyond \in [{n \in CoPastEnd : CoReadStep(n) < stop} -> StrayBytes] :
          LET width  == heap[nohq].w
              height == heap[nohq].h
              r  == Repack(heap[nohqPrepared].bits,
                           Behind(heap[smdiPrepared].bits, smdiBeyond),
                           heap[asPrepared].bits,
                           Behind(heap[coPrepared].bits, coBeyond),
                           width, height, stop)
              m1 == Alloc(Mem, r.nmo)
              m2 == Alloc(m1, r.bcr)
          IN  /\ nmo' = Mem.next
              /\ bcr' = m1.next
              /\ SetMem(m2)
    /\ pc' = "crashed"
    /\ UNCHANGED <<exitCode, disk, env, lists, i, loaded, prepared,
                   moveLists, call, faults, loadLog, written, opFailed>>

\* lines 282-288: the six output paths of a set, in the order they are saved
OutputNames(primary) ==
    LET baseName == getBaseName(primary)
    IN  << baseName \o S_NMO \o dotTga, baseName \o S_BCR \o dotTga,
           baseName \o S_NMO \o dotTif, baseName \o S_BCR \o dotTif,
           baseName \o S_NMO \o dotPng, baseName \o S_BCR \o dotPng >>

\* the directory after the saves of lines 290-295; saves in `failing` fail
RECURSIVE SaveAll(_, _, _, _, _, _)
SaveAll(dir, names, n, nmoDib, bcrDib, failing) ==
    IF n > Len(names) THEN dir
    ELSE SaveAll(IF saveImage(names[n], n \notin failing)
                 THEN Put(dir, Filename(names[n]),
                          IF n % 2 = 1 THEN nmoDib ELSE bcrDib)
                 ELSE dir,
                 names, n + 1, nmoDib, bcrDib, failing)

\* lines 282-310: the six saves, the ten unloads, the next set
SaveRelease ==
    /\ pc = "save"
    /\ \E failing \in SUBSET (1..6) :
          /\ faults + Cardinality(failing) <= MaxFaults
          /\ faults' = faults + Cardinality(failing)
          /\ LET names == OutputNames(nohqFiles[i + 1])
             IN  /\ tga' = SaveAll(tga, names, 1, heap[nmo], heap[bcr], failing)
                 /\ written' = written \cup
                       {<<i, Filename(names[n])>> : n \in {n0 \in 1..6 :
                            saveImage(names[n0], n0 \notin failing)}}
    /\ SetMem(UnloadAll(Mem, <<nohq, smdi, as, co, nohqPrepared, smdiPrepared,
                               asPrepared, coPrepared, nmo, bcr>>))
    /\ nohq' = NULL /\ smdi' = NULL /\ as' = NULL /\ co' = NULL
    /\ nohqPrepared' = NULL /\ smdiPrepared' = NULL
    /\ asPrepared' = NULL /\ coPrepared' = NULL
    /\ nmo' = NULL /\ bcr' = NULL
    /\ i' = i + 1
    /\ pc' = "load"
    /\ UNCHANGED <<exitCode, pbr, pbrExists, env, lists,
                   moveLists, call, loadLog, opFailed>>

MoveSuffixesWithoutPng ==
    << S_NMO \o dotTga, S_BCR \o dotTga, S_NMO \o dotTif, S_BCR \o dotTif >>

\* lines 312-317: the suffixes of the files to move
MoveSuffixes ==
    << S_NMO \o dotTga, S_BCR \o dotTga, S_NMO \o dotTif, S_BCR \o dotTif,
       S_NMO \o dotPng, S_BCR \o dotPng >>

\* lines 312-317: the six lists of files to move, once the loop has ended.
\* moveLists keeps the files of each list; the order of a list, which the
\* directory iterator leaves unspecified, is drawn when the list is walked.
ScanOutputs ==
    /\ pc = "load"
    /\ ~(i < Len(nohqFiles))
    /\ moveLists' = [k \in 1..Len(MoveSuffixes) |->
                        Listed(tga, dirOK, MoveSuffixes[k])]
    /\ call' = 1
    /\ pc' = "move"
    /\ UNCHANGED <<exitCode, disk, env, lists, i, loaded, prepared, outs, memory,
                   faults, loadLog, written, opFailed>>

\* the orders in which a list may be walked; when no rename of the walk
\* fails, every order leaves the same directories, and one order stands for all
WalkOrders(files, failAt) ==
    IF failAt = 0 /\ \A p \in files : Filename(p) \in DOMAIN tga
    THEN {AnOrder(files)}
    ELSE Orders(files)

\* lines 319-324: one call of moveFilesToPBRFolder
MoveList ==
    /\ pc = "move"
    /\ call <= Len(moveLists)
    /\ \E failAt \in 0..Cardinality(moveLists[call]) :
       \E filenames \in WalkOrders(moveLists[call], failAt) :
          LET injected == IF failAt > 0 THEN 1 ELSE 0
              d0 == [tga |-> tga, pbr |-> pbr, exists |-> pbrExists, failed |-> {}]
              d1 == moveFilesToPBRFolder(d0, filenames, ~pbrCreatable, failAt)
          IN  /\ faults + injected <= MaxFaults
              /\ failAt > 0 =>
                    <<"rename", Filename(filenames[failAt])>> \in d1.failed
              /\ faults' = faults + injected
              /\ tga' = d1.tga
              /\ pbr' = d1.pbr
              /\ pbrExists' = d1.exists
              /\ opFailed' = opFailed \cup {<<call, f[1], f[2]>> : f \in d1.failed}
    /\ call' = call + 1
    /\ UNCHANGED <<pc, exitCode, env, lists, i, loaded, prepared, outs, memory,
                   moveLists, loadLog, written>>

\* lines 326-329
Finish ==
    /\ pc = "move"
    /\ call > Len(moveLists)
    /\ pc' = "done"
    /\ exitCode' = 0
    /\ UNCHANGED <<disk, env, lists, i, loaded, prepared, outs, memory,
                   moveLists, call, faults, loadLog, written, opFailed>>

Next ==
    \/ Scan
    \/ CheckEmpty
    \/ LoadSet
    \/ Prepare
    \/ RepackStep
    \/ SaveRelease
    \/ ScanOutputs
    \/ MoveList
    \/ Finish

Spec == Init /\ [][Next]_vars

-----------------------------------------------------------------------------
(* The pixel loop on its own: four 32-bit buffers of one size, drawn from   *)
(* bounded sets, stand where Prepare leaves them; RepackStep acts on them.  *)

InitRepack ==
    /\ pc = "repack"
    /\ exitCode = 0
    /\ dirOK = TRUE
    /\ pbrCreatable = TRUE
    /\ tga = <<>> /\ pbr = <<>> /\ pbrExists = FALSE
    /\ start = [tga |-> <<>>, pbr |-> <<>>, exists |-> FALSE]
    /\ nohqFiles = <<>> /\ smdiFiles = <<>> /\ asFiles = <<>> /\ coFiles = <<>>
    /\ i = 0
    /\ nohq = 1 /\ smdi = 2 /\ as = 3 /\ co = 4
    /\ nohqPrepared = 5 /\ smdiPrepared = 6 /\ asPrepared = 7 /\ coPrepared = 8
    /\ nmo = NULL /\ bcr = NULL
    /\ \E w \in 1..MaxW, h \in 1..MaxH, s \in [1..4 -> 0..MaxSeed] :
          heap = [n \in 1..8 |-> Image(w, h, 32, s[((n - 1) % 4) + 1])]
    /\ nextHandle = 9
    /\ unloads = [n \in 1..8 |-> 0]
    /\ moveLists = <<>>
    /\ call = 0
    /\ faults = 0
    /\ loadLog = <<>>
    /\ written = {}
    /\ opFailed = {}

NextRepack == RepackStep

SpecRepack == InitRepack /\ [][NextRepack]_vars

-----------------------------------------------------------------------------
(* The pixel loop on a _smdi image smaller than the _nohq image.  A read    *)
(* past the end yields any byte, so one such step has 256 * 256 outcomes;   *)
(* the run is taken up where main stands before line 246, having scanned    *)
(* TGA_Result = {a_nohq.tga, s_smdi.png, a_as.tga, a_co.tga}, loaded set 0  *)
(* and made the 32-bit copies, and is followed through the loop: the loop   *)
(* completes with stray bytes in nmo and bcr, and main goes on to line 282  *)
(* as on any other run, or the process ends inside the loop.                *)

PastEndScene == {a_nohq_tga, s_smdi_png, a_as_tga, a_co_tga}

InitPastEnd ==
    /\ pc = "repack"
    /\ exitCode = 0
    /\ dirOK = TRUE
    /\ pbrCreatable = TRUE
    /\ tga = [n \in PastEndScene |-> FileData(n)]
    /\ pbr = <<>> /\ pbrExists = FALSE
    /\ start = [tga |-> tga, pbr |-> pbr, exists |-> pbrExists]
    /\ nohqFiles = <<TGA_Result \o a_nohq_tga>>
    /\ smdiFiles = <<TGA_Result \o s_smdi_png>>
    /\ asFiles = <<TGA_Result \o a_as_tga>>
    /\ coFiles = <<TGA_Result \o a_co_tga>>
    /\ i = 0
    /\ nohq = 1 /\ smdi = 2 /\ as = 3 /\ co = 4
    /\ nohqPrepared = 5 /\ smdiPrepared = 6 /\ asPrepared = 7 /\ coPrepared = 8
    /\ nmo = NULL /\ bcr = NULL
    /\ heap = LET file == <<a_nohq_tga, s_smdi_png, a_as_tga, a_co_tga>>
                  dib(n) == loadImage(TGA_Result \o file[n], FileData(file[n]))
              IN  [n \in 1..8 |-> IF n <= 4 THEN dib(n)
                                  ELSE FreeImage_ConvertTo32Bits(dib(n - 4))]
    /\ nextHandle = 9
    /\ unloads = [n \in 1..8 |-> 0]
    /\ moveLists = <<>>
    /\ call = 0
    /\ faults = 0
    /\ loadLog = << <<nohqFiles[1], smdiFiles[1], asFiles[1], coFiles[1]>> >>
    /\ written = {}
    /\ opFailed = {}

NextPastEnd ==
    \/ RepackStep
    \/ RepackCrash

SpecPastEnd == InitPastEnd /\ [][NextPastEnd]_vars

-----------------------------------------------------------------------------
(* Properties of the pixel loop (checked under SpecRepack). *)

Repacked == pc = "save" /\ nmo # NULL /\ bcr # NULL

Pixels == {(x + y * heap[nohq].w) * 4 : x \in 0..(heap[nohq].w - 1),
                                        y \in 0..(heap[nohq].h - 1)}

NohqBits == heap[nohqPrepared].bits
SmdiBits == heap[smdiPrepared].bits
AsBits   == heap[asPrepared].bits
CoBits   == heap[coPrepared].bits
NmoBits  == heap[nmo].bits
BcrBits  == heap[bcr].bits

\* C1: for four same-size 32-bit buffers and every pixel, by byte offset in
\* the pixel, NMO[0] = smdi[1], NMO[1] = nohq[1], NMO[2] = nohq[2],
\* NMO[3] = as[1], BCR[0..2] = co[0..2], BCR[3] = smdi[0]; the two output
\* buffers hold these bytes and nothing else.
C1_ByteOffsets ==
    Repacked =>
        /\ DOMAIN NmoBits = {p + c : p \in Pixels, c \in 0..3}
        /\ DOMAIN BcrBits = {p + c : p \in Pixels, c \in 0..3}
        /\ \A p \in Pixels :
              /\ NmoBits[p + 0] = SmdiBits[p + 1]
              /\ NmoBits[p + 1] = NohqBits[p + 1]
              /\ NmoBits[p + 2] = NohqBits[p + 2]
              /\ NmoBits[p + 3] = AsBits[p + 1]
              /\ BcrBits[p + 0] = CoBits[p + 0]
              /\ BcrBits[p + 1] = CoBits[p + 1]
              /\ BcrBits[p + 2] = CoBits[p + 2]
              /\ BcrBits[p + 3] = SmdiBits[p + 0]

\* four pairwise different 2x2 inputs have been repacked
C1_Witness ==
    /\ Repacked
    /\ heap[nohq].w = 2 /\ heap[nohq].h = 2
    /\ Cardinality({NohqBits, SmdiBits, AsBits, CoBits}) = 4

\* byte offset of each colour in a 32-bit pixel on a little-endian host
Offset == [B |-> 0, G |-> 1, R |-> 2, A |-> 3]

\* C8 as stated: by colour name, NMO.R = smdi.G, NMO.G = nohq.G,
\* NMO.B = nohq.B, NMO.A = as.G, BCR.RGB = co.RGB, BCR.A = smdi.B.
C8_ColourTable ==
    Repacked =>
        \A p \in Pixels :
            /\ NmoBits[p + Offset.R] = SmdiBits[p + Offset.G]
            /\ NmoBits[p + Offset.G] = NohqBits[p + Offset.G]
            /\ NmoBits[p + Offset.B] = NohqBits[p + Offset.B]
            /\ NmoBits[p + Offset.A] = AsBits[p + Offset.G]
            /\ BcrBits[p + Offset.R] = CoBits[p + Offset.R]
            /\ BcrBits[p + Offset.G] = CoBits[p + Offset.G]
            /\ BcrBits[p + Offset.B] = CoBits[p + Offset.B]
            /\ BcrBits[p + Offset.A] = SmdiBits[p + Offset.B]

\* C8 amended: by colour name, NMO.B = smdi.G, NMO.G = nohq.G,
\* NMO.R = nohq.R, NMO.A = as.G, BCR.RGB = co.RGB, BCR.A = smdi.B.
C8_ColoursAsCoded ==
    Repacked =>
        \A p \in Pixels :
            /\ NmoBits[p + Offset.B] = SmdiBits[p + Offset.G]
            /\ NmoBits[p + Offset.G] = NohqBits[p + Offset.G]
            /\ NmoBits[p + Offset.R] = NohqBits[p + Offset.R]
            /\ NmoBits[p + Offset.A] = AsBits[p + Offset.G]
            /\ BcrBits[p + Offset.R] = CoBits[p + Offset.R]
            /\ BcrBits[p + Offset.G] = CoBits[p + Offset.G]
            /\ BcrBits[p + Offset.B] = CoBits[p + Offset.B]
            /\ BcrBits[p + Offset.A] = SmdiBits[p + Offset.B]

\* a repacked pixel whose normal map has different red and blue, and whose
\* specular map differs from the normal map: the table's cells tell apart
C8_Witness ==
    /\ Repacked
    /\ \E p \in Pixels :
          /\ NohqBits[p + Offset.R] # NohqBits[p + Offset.B]
          /\ SmdiBits[p + Offset.G] # NohqBits[p + Offset.R]
          /\ SmdiBits[p + Offset.G] # NohqBits[p + Offset.B]
          /\ SmdiBits[p + Offset.B] # SmdiBits[p + Offset.R]

-----------------------------------------------------------------------------
(* Properties of a run of main (checked under Spec). *)

Scanned  == pc # "start"
Done     == pc = "done"
Range(q) == {q[n] : n \in 1..Len(q)}

\* the names of the files this run has saved
Produced == {e[2] : e \in written}

\* a set whose load failed: one of its four files cannot be decoded
FailedSet(e) == \E n \in 1..4 : start.tga[Filename(e[n])] = Undecodable

PbrUntouched == pbr = start.pbr /\ pbrExists = start.exists

\* C2: when one of the four role lists is empty (also when TGA_Result
\* cannot be listed), main ends with a non-zero code before any image is
\* loaded: nothing is saved, nothing is moved.
C2_EmptyRoleAborts ==
    (pc \notin {"start", "check"}
       /\ (nohqFiles = <<>> \/ smdiFiles = <<>> \/ asFiles = <<>> \/ coFiles = <<>>))
    => /\ Done
       /\ exitCode # 0
       /\ loadLog = <<>> /\ nextHandle = 1
       /\ written = {} /\ tga = start.tga
       /\ moveLists = <<>> /\ PbrUntouched

\* the scenario of the specification: every role but _co has a file
C2_Witness ==
    /\ Done
    /\ coFiles = <<>>
    /\ nohqFiles # <<>> /\ smdiFiles # <<>> /\ asFiles # <<>>

\* C3: when a load of set i fails, the run ends at once with a non-zero
\* code: set i is the last set touched, nothing is saved for it, and the
\* exit code is never 0 after a failed load.
C3_LoadFailureAborts ==
    \A n \in 1..Len(loadLog) :
        FailedSet(loadLog[n]) =>
            /\ Done
            /\ exitCode # 0
            /\ n = Len(loadLog)
            /\ i = n - 1
            /\ \A e \in written : e[1] < n - 1
            /\ moveLists = <<>>

\* the second set fails to load after the first one was saved
C3_Witness ==
    /\ Done
    /\ Len(loadLog) = 2
    /\ FailedSet(loadLog[2])
    /\ \E e \in written : e[1] = 0
    /\ Len(nohqFiles) = 3

\* C4: set i uses nohqFiles[i] and, of each other role, the file at index
\* i mod the length of that role's list, whatever the lengths; never more
\* sets are started than there are _nohq files, and a run that returns 0
\* has processed exactly that many.
C4_Cycling ==
    /\ \A n \in 1..Len(loadLog) :
          /\ n <= Len(nohqFiles)
          /\ loadLog[n][1] = nohqFiles[n]
          /\ loadLog[n][2] = smdiFiles[((n - 1) % Len(smdiFiles)) + 1]
          /\ loadLog[n][3] = asFiles[((n - 1) % Len(asFiles)) + 1]
          /\ loadLog[n][4] = coFiles[((n - 1) % Len(coFiles)) + 1]
    /\ (Done /\ exitCode = 0) =>
          /\ Len(loadLog) = Len(nohqFiles)
          /\ i = Len(nohqFiles)
          /\ {e[1] : e \in written} \subseteq 0..(Len(nohqFiles) - 1)

\* three _nohq files, one _smdi file used by all three sets, two _as files
C4_Witness ==
    /\ Done /\ exitCode = 0
    /\ Len(nohqFiles) = 3 /\ Len(smdiFiles) = 1 /\ Len(asFiles) = 2
    /\ Len(loadLog) = 3
    /\ loadLog[1][2] = loadLog[3][2]
    /\ loadLog[3][3] = asFiles[1]

SupportedAnyCase(name) ==
    ToLowerStr(ExtensionOfName(name)) \in {dotTga, dotTif, dotPng}

\* C5 as stated: a file whose name holds _nohq in any letter case and whose
\* extension is tga, tif or png in any letter case is in the _nohq list.
C5_CaseInsensitive ==
    (Scanned /\ dirOK) =>
        \A name \in DOMAIN start.tga :
            (Contains(ToLowerStr(name), S_nohq) /\ SupportedAnyCase(name))
            => (TGA_Result \o name) \in Range(nohqFiles)

IsOutputName(name) ==
    /\ ExtensionOfName(name) \in {dotTga, dotTif, dotPng}
    /\ \E sfx \in {S_NMO, S_BCR}, ext \in {dotTga, dotTif, dotPng} :
          Contains(name, sfx \o ext)

\* C6 as stated: in a run without failures, the files gone from TGA_Result
\* are exactly the files this run produced; every other file is in place
\* and unchanged.
C6_ExactlyProduced ==
    (Done /\ exitCode = 0 /\ faults = 0 /\ opFailed = {}) =>
        /\ \A name \in Produced : name \notin DOMAIN tga /\ name \in DOMAIN pbr
        /\ \A name \in DOMAIN start.tga \ Produced :
              name \in DOMAIN tga /\ tga[name] = start.tga[name]

\* C6 amended: relocation takes the files of TGA_Result whose names hold
\* _NMO or _BCR followed by .tga, .tif or .png, those of this run and those
\* that were there before it; a file that left TGA_Result has such a name
\* and is in PBR_Result; every other file is in place and unchanged; with
\* no file-system failure every file with such a name has been moved.
C6_MovesMatchingNames ==
    (Done /\ exitCode = 0) =>
        /\ \A name \in DOMAIN start.tga :
              ~IsOutputName(name) => name \in DOMAIN tga /\ tga[name] = start.tga[name]
        /\ \A name \in DOMAIN tga : ~IsOutputName(name) => name \in DOMAIN start.tga
        /\ \A name \in (DOMAIN start.tga \cup Produced) \ DOMAIN tga :
              IsOutputName(name) /\ name \in DOMAIN pbr
        /\ opFailed = {} =>
              /\ \A name \in DOMAIN tga : ~IsOutputName(name)
              /\ \A name \in DOMAIN start.tga \ Produced :
                    IsOutputName(name) => pbr[name] = start.tga[name]
              /\ Produced \subseteq DOMAIN pbr

\* a file of an earlier run was moved with this run's, an unrelated one stayed
C6_Witness ==
    /\ Done /\ exitCode = 0 /\ opFailed = {}
    /\ old_NMO_tga \in DOMAIN start.tga /\ old_NMO_tga \in DOMAIN pbr
    /\ old_NMO_tga \notin Produced
    /\ a_NMO_tga \in Produced /\ a_NMO_tga \in DOMAIN pbr
    /\ R_NoHQ_TGA \in DOMAIN tga

\* C7 as stated: when a rename fails, only that file is skipped; every
\* other file of every list has been moved when main returns.
C7_OnlyFailedOpSkipped ==
    (Done /\ exitCode = 0 /\ \A f \in opFailed : f[2] = "rename") =>
        \A k \in 1..Len(moveLists) : \A path \in moveLists[k] :
            LET name == Filename(path)
            IN  \/ <<k, "rename", name>> \in opFailed
                \/ name \notin DOMAIN tga /\ name \in DOMAIN pbr

\* C9: a bitmap is unloaded exactly once, and none is live when a set
\* starts or when main returns: after a saved set, after a failed load and
\* after a rescaled AS (the paths along which main runs on).
C9_ReleasedOnce ==
    /\ DOMAIN unloads = 1..(nextHandle - 1)
    /\ \A h \in DOMAIN unloads :
          /\ unloads[h] <= 1
          /\ (unloads[h] = 1) <=> (h \notin DOMAIN heap)
    /\ pc \in {"start", "check", "load", "move", "done"} => DOMAIN heap = {}

\* set 0 was saved with a rescaled AS (11 bitmaps), then a load of set 1
\* failed (3 bitmaps loaded): all 14 were unloaded once
C9_Witness ==
    /\ Done /\ exitCode # 0
    /\ Len(loadLog) = 2
    /\ Filename(loadLog[1][3]) = b_as_png
    /\ \E e \in written : e[1] = 0
    /\ FailedSet(loadLog[2])
    /\ nextHandle = 15
    /\ \A h \in DOMAIN unloads : unloads[h] = 1

\* C10: PBR_Result changes only after every set has been loaded and saved;
\* a run that ends with a non-zero code leaves PBR_Result as it was, and
\* the files it saved are still in TGA_Result.
C10_RelocationLast ==
    /\ ~PbrUntouched =>
          /\ pc \in {"move", "done"}
          /\ Len(loadLog) = Len(nohqFiles)
          /\ i = Len(nohqFiles)
          /\ \A n \in 1..Len(loadLog) : ~FailedSet(loadLog[n])
    /\ (Done /\ exitCode # 0) =>
          /\ PbrUntouched
          /\ \A name \in Produced : name \in DOMAIN tga

\* a run stopped at its second set: the first set's files are where saved
C10_Witness ==
    /\ Done /\ exitCode # 0
    /\ Produced # {}
    /\ start.exists /\ a_NMO_tga \in Produced

====
